---- MODULE Spec2Model ----
(***************************************************************************)
(* connector-contacts: the lazily loaded native backend (loadNative), the  *)
(* access gate (ensureAccess), the structured-backend operations of        *)
(* contacts-native.ts and the tool handlers of index.ts that call them.    *)
(*                                                                         *)
(* Every call of an async function of contacts-native.ts is an activation  *)
(* (an element of ops) that advances from one await to the next; between   *)
(* two awaits the code runs without interruption (single-threaded event    *)
(* loop), so each action below is the code between two suspension points.  *)
(* A tool handler has no await of its own: it runs to completion in one    *)
(* step, holding the promises of the activations it has started.           *)
(***************************************************************************)
EXTENDS Integers, Sequences, FiniteSets, TLC

VARIABLES
    authStatus,     \* the OS-owned authorization record read by contacts.getAuthStatus()
    loadPromise,    \* _loadPromise: Null or the load attempt whose promise is cached
    attempts,       \* attempts[k]: state of the promise built by the k-th import() chain
    ops,            \* activations of the async functions of contacts-native.ts
    store,          \* the address book held by the structured backend, in backend order
    requests,       \* tool invocations received so far, each with the payload it returned
    updateLog,      \* what contacts.updateContact received, with the record stored before
    unhandled,      \* activations whose rejection reached process.on("unhandledRejection")
    groups,         \* the groups of the Contacts application, each with its member people
    scriptLog,      \* calls of the functions of contacts-applescript.ts, with their outcome
    drawn           \* the text a mocked interpreter run prints, or a caller passes as a name

vars == <<authStatus, loadPromise, attempts, ops, store, requests, updateLog, unhandled,
          groups, scriptLog, drawn>>

\* The state of the structured backend and of the scripted one.
nativeVars == <<authStatus, loadPromise, attempts, ops, store, requests, updateLog, unhandled>>
scriptVars == <<groups, scriptLog, drawn>>

----------------------------------------------------------------------------
(* Bounds *)

MaxOps == 2         \* activations started in one run
MaxAttempts == 2    \* import() attempts in one run
MaxSupplied == 1    \* fields a caller of update_contact supplies
MaxReads == 1       \* read operations started in one run of the read-only program
MaxLen == 4         \* characters of a drawn text
MaxScripts == 2     \* calls of scripted-backend functions in one run

----------------------------------------------------------------------------
(* Values *)

Null == 0

Status == {"Not Determined", "Authorized", "Denied", "Restricted", "Limited", "Unknown"}

ScalarFields == {"firstName", "lastName", "nickname", "middleName", "jobTitle",
                 "departmentName", "organizationName", "birthday"}
SeqFields == {"phoneNumbers", "emailAddresses", "urlAddresses"}
Fields == ScalarFields \cup SeqFields

\* An optional value: None is JavaScript's undefined, Some(v) a present value.
None == {}
Some(v) == {v}
Get(o) == CHOOSE v \in o : TRUE

\* Texts are sequences of characters.
Empty == <<>>
Alice == <<"A", "l", "i", "c", "e">>
Smith == <<"S", "m", "i", "t", "h">>
Zed == <<"Z", "e", "d">>
Ali == <<"a", "l", "i">>
Blank == <<" ">>
Mail == <<"a", "@", "x">>
Phone == <<"+", "1", "5">>
MailUpper == <<"A", "@", "x">>
PhoneAlpha == <<"A", "1">>
PlusOne == <<"+", "1">>
PaddedAli == <<" ", "a", "l", "i", " ">>
Spanning == <<"e", " ", "S">>

NoFields == [f \in Fields |-> None]

----------------------------------------------------------------------------
(* Text functions used by contacts-native.ts *)

LowerChar(c) ==
    CASE c = "A" -> "a"
      [] c = "S" -> "s"
      [] c = "Z" -> "z"
      [] OTHER -> c

toLowerCase(s) == [i \in 1..Len(s) |-> LowerChar(s[i])]

\* Characters with a role in a script literal or in the interpreter's output.
Backslash == "BACKSLASH"
Quote == "QUOTE"
CR == "CR"
LF == "LF"

IsSpace(c) == c \in {" ", CR, LF}

RECURSIVE trimStart(_)
trimStart(s) ==
    IF s # <<>> /\ IsSpace(Head(s)) THEN trimStart(Tail(s)) ELSE s

RECURSIVE trimEnd(_)
trimEnd(s) ==
    IF s # <<>> /\ IsSpace(s[Len(s)]) THEN trimEnd(SubSeq(s, 1, Len(s) - 1)) ELSE s

trim(s) == trimEnd(trimStart(s))

includes(s, q) ==
    \E i \in 0..(Len(s) - Len(q)) : SubSeq(s, i + 1, i + Len(q)) = q

\* Array.prototype.find: the first element satisfying the test, as an optional.
FindById(list, identifier) ==
    LET hits == {i \in 1..Len(list) : list[i].identifier = identifier}
    IN  IF hits = {} THEN None
        ELSE Some(list[CHOOSE i \in hits : \A j \in hits : i <= j])

Ids(list) == [i \in 1..Len(list) |-> list[i].identifier]

----------------------------------------------------------------------------
(* The structured backend (node-mac-contacts), as declared in types.ts *)

Contact(id, first, last, nick, phones, mails) ==
    [identifier |-> id, firstName |-> first, lastName |-> last, nickname |-> nick,
     middleName |-> Empty, jobTitle |-> Empty, departmentName |-> Empty,
     organizationName |-> Empty, birthday |-> Empty,
     phoneNumbers |-> phones, emailAddresses |-> mails, urlAddresses |-> <<>>]

InitialStore ==
    << Contact("c1", Alice, Smith, Empty, <<Phone>>, <<Mail>>),
       Contact("c2", Empty, Empty, Ali, <<>>, <<>>) >>

\* Identifiers callers pass: two stored ones and one that is not stored.
Identifiers == {"c1", "c2", "zz"}

\* An address book whose first contact carries an upper-case e-mail address and
\* a lettered phone number, and whose second contact has no name.
ReadStore ==
    << Contact("c1", Alice, Smith, Empty, <<Phone, PhoneAlpha>>, <<MailUpper>>),
       Contact("c2", Empty, Empty, Ali, <<>>, <<>>) >>

\* Queries callers pass.
Queries == {Alice, Ali, Blank, Smith, PaddedAli, Mail, PlusOne, PhoneAlpha, Spanning}

\* contacts.getContactsByName: the platform's name predicate.  It matches on
\* the name fields and is known to miss (miss = TRUE) for some queries.
NameMatches(c, name) ==
    LET n == toLowerCase(name)
    IN  /\ n # Empty
        /\ \/ toLowerCase(c.firstName) = n
           \/ toLowerCase(c.lastName) = n
           \/ toLowerCase(c.firstName \o <<" ">> \o c.lastName) = n

getContactsByName(st, name, miss) ==
    IF miss THEN <<>> ELSE SelectSeq(st, LAMBDA c : NameMatches(c, name))

\* The identifier the backend assigns to the contact that activation a adds.
NewIdentifier(a) == "n" \o ToString(a)

\* contacts.addNewContact(input): absent fields become empty.
addNewContact(st, a, input) ==
    Append(st, [f \in Fields \cup {"identifier"} |->
                  IF f = "identifier" THEN NewIdentifier(a)
                  ELSE IF input[f] # None THEN Get(input[f])
                  ELSE <<>>])

\* contacts.updateContact(input): the fields present in input overwrite the
\* stored ones of the contact with input's identifier.
backendUpdateContact(st, identifier, input) ==
    [i \in 1..Len(st) |->
        IF st[i].identifier # identifier THEN st[i]
        ELSE [f \in Fields \cup {"identifier"} |->
                IF f # "identifier" /\ input[f] # None THEN Get(input[f])
                ELSE st[i][f]]]

\* contacts.deleteContact({identifier})
backendDeleteContact(st, identifier) ==
    SelectSeq(st, LAMBDA c : c.identifier # identifier)

Stored(st, identifier) == \E i \in 1..Len(st) : st[i].identifier = identifier

----------------------------------------------------------------------------
(* loadNative, contacts-native.ts lines 19-47 *)

\* Mutation: the cache is not consulted.
LoadNativeStarts_Always(lp) == TRUE

\* Line 26: a new import() chain is built only when nothing is cached.
LoadNativeStarts(lp) == lp = Null

\* The cache, the attempts and the promise returned by one loadNative() call.
loadNative(att, lp) ==
    IF LoadNativeStarts(lp)
    THEN [attempts |-> Append(att, "pending"), loadPromise |-> Len(att) + 1,
          ref |-> Len(att) + 1]
    ELSE [attempts |-> att, loadPromise |-> lp, ref |-> lp]

\* The run is cut off once MaxAttempts import() chains have been built.
WithinAttempts(att, lp) == LoadNativeStarts(lp) => Len(att) < MaxAttempts

\* Mutation: the reset of line 42 sits in the .then handler.
CacheAfterFulfil_Clears(lp) == Null

\* The cache after the .then handler (lines 28-33) ran: left as it is.
CacheAfterFulfil(lp) == lp

\* Mutation: line 42 is missing.
CacheAfterReject_Keeps(lp) == lp

\* The cache after the .catch handler (lines 34-44) ran: line 42 resets it.
CacheAfterReject(lp) == Null

\* import("node-mac-contacts") resolved: the chained promise is fulfilled with mod.default.
ImportFulfilled(k) ==
    /\ k \in 1..Len(attempts)
    /\ attempts[k] = "pending"
    /\ attempts' = [attempts EXCEPT ![k] = "fulfilled"]
    /\ loadPromise' = CacheAfterFulfil(loadPromise)
    /\ UNCHANGED <<authStatus, ops, store, requests, updateLog, unhandled>>
    /\ UNCHANGED scriptVars

\* import("node-mac-contacts") rejected: the catch handler clears the cache and
\* rejects the chained promise with the "Failed to load native module" error.
ImportRejected(k) ==
    /\ k \in 1..Len(attempts)
    /\ attempts[k] = "pending"
    /\ attempts' = [attempts EXCEPT ![k] = "rejected"]
    /\ loadPromise' = CacheAfterReject(loadPromise)
    /\ UNCHANGED <<authStatus, ops, store, requests, updateLog, unhandled>>
    /\ UNCHANGED scriptVars

----------------------------------------------------------------------------
(* Activations of the async functions of contacts-native.ts *)

GatedKinds == {"getAllContacts", "searchContacts", "getContactDetails",
               "createContact", "updateContact", "deleteContact"}

\* Mutation: deleteContact does not await ensureAccess().
Gated_SkipsDelete(kind) == kind \in GatedKinds \ {"deleteContact"}

\* Lines 114, 120, 156, 186, 194, 200: the operation awaits ensureAccess() first.
Gated(kind) == kind \in GatedKinds

\* Mutation: "Limited" is not accepted.
AccessGranted_OnlyAuthorized(s) == s = "Authorized"

\* Lines 90 and 94: the statuses that let the operation proceed.
AccessGranted(s) == s = "Authorized" \/ s = "Limited"

\* Mutation: the prompt is requested for "Denied" as well.
Prompts_AlsoDenied(s) == s = "Not Determined" \/ s = "Denied"

\* Line 92: the status for which the permission prompt is requested.
Prompts(s) == s = "Not Determined"

NoError == [kind |-> "none", status |-> ""]
\* Line 43: new Error("Failed to load native module ...")
BackendUnavailable == [kind |-> "Failed to load native module", status |-> ""]
\* Lines 95-98: `Contacts access was not granted (status after prompt: ${result})`
NotGranted(result) == [kind |-> "Contacts access was not granted", status |-> result]
\* Lines 102-106: `Contacts access is currently "${status}"`
CurrentlyError(status) == [kind |-> "Contacts access is currently", status |-> status]

\* The activation as it stands at its first await.  Every exported function
\* reaches loadNative() synchronously: a gated one through ensureAccess() and
\* getAuthStatus() (line 69), getAuthStatus itself at line 69.
NewOp(kind, inv, ref, identifier, query, payload) ==
    [kind |-> kind, inv |-> inv,
     pc |-> IF Gated(kind) \/ kind = "getAuthStatus" THEN "getAuthStatus" ELSE "load",
     ref |-> ref, identifier |-> identifier, query |-> query, payload |-> payload,
     status |-> "", result |-> "", prompts |-> 0, gate |-> "none",
     calls |-> <<>>, primary |-> <<>>, value |-> <<>>, ok |-> FALSE,
     outcome |-> "pending", error |-> NoError]

Settled(k) == attempts[k] # "pending"

\* The activation's promise rejects.  No tool handler awaits the promise or
\* attaches a reaction to it (index.ts lines 27, 52, 67, 82, 112, 115, 155,
\* 175, 193), so the rejection is reported by process.on("unhandledRejection").
Rejected(op, gate, err) ==
    [op EXCEPT !.pc = "done", !.gate = gate, !.outcome = "rejected", !.error = err]

\* getAuthStatus, lines 68-71, resumed after `await loadNative()`.
GetAuthStatusResume(a) ==
    /\ a \in 1..Len(ops)
    /\ ops[a].pc = "getAuthStatus"
    /\ Settled(ops[a].ref)
    /\ IF attempts[ops[a].ref] = "rejected"
       THEN /\ ops' = [ops EXCEPT ![a] = Rejected(@, IF Gated(@.kind) THEN "failed" ELSE "none",
                                                     BackendUnavailable)]
            /\ unhandled' = unhandled \cup {a}
       ELSE /\ ops' = [ops EXCEPT ![a] =
                         IF @.kind = "getAuthStatus"
                         THEN [@ EXCEPT !.status = authStatus, !.pc = "done",
                                        !.outcome = "resolved"]
                         ELSE [@ EXCEPT !.status = authStatus, !.pc = "ensureAccess"]]
            /\ UNCHANGED unhandled
    /\ UNCHANGED <<authStatus, loadPromise, attempts, store, requests, updateLog>>
    /\ UNCHANGED scriptVars

\* ensureAccess, lines 88-106, resumed with the status.  On success the
\* operation goes on to its own `await loadNative()`; for "Not Determined"
\* requestAccess() is called and suspends at line 74.
EnsureAccess(a) ==
    /\ a \in 1..Len(ops)
    /\ ops[a].pc = "ensureAccess"
    /\ LET L == loadNative(attempts, loadPromise)
       IN  IF AccessGranted(ops[a].status) \/ Prompts(ops[a].status)
           THEN /\ WithinAttempts(attempts, loadPromise)
                /\ attempts' = L.attempts
                /\ loadPromise' = L.loadPromise
                /\ ops' = [ops EXCEPT ![a] =
                             IF AccessGranted(@.status)
                             THEN [@ EXCEPT !.gate = "passed", !.pc = "load", !.ref = L.ref]
                             ELSE [@ EXCEPT !.pc = "requestAccess", !.ref = L.ref]]
                /\ UNCHANGED unhandled
           ELSE /\ ops' = [ops EXCEPT ![a] = Rejected(@, "failed", CurrentlyError(@.status))]
                /\ unhandled' = unhandled \cup {a}
                /\ UNCHANGED <<attempts, loadPromise>>
    /\ UNCHANGED <<authStatus, store, requests, updateLog>>
    /\ UNCHANGED scriptVars

\* requestAccess, lines 73-76, resumed after `await loadNative()`: line 75
\* calls contacts.requestAccess(), which raises the permission prompt.
RequestAccessResume(a) ==
    /\ a \in 1..Len(ops)
    /\ ops[a].pc = "requestAccess"
    /\ Settled(ops[a].ref)
    /\ IF attempts[ops[a].ref] = "rejected"
       THEN /\ ops' = [ops EXCEPT ![a] = Rejected(@, "failed", BackendUnavailable)]
            /\ unhandled' = unhandled \cup {a}
       ELSE /\ ops' = [ops EXCEPT ![a] = [@ EXCEPT !.prompts = @ + 1, !.pc = "prompt"]]
            /\ UNCHANGED unhandled
    /\ UNCHANGED <<authStatus, loadPromise, attempts, store, requests, updateLog>>
    /\ UNCHANGED scriptVars

\* What contacts.requestAccess() resolves with: the user's answer to the
\* prompt ("Authorized", "Denied"), or "Limited" where the OS grants partial access.
PromptResults == {"Authorized", "Limited", "Denied"}

\* The prompt is answered: contacts.requestAccess() resolves with the status
\* the OS now records.
PromptAnswered(a, r) ==
    /\ a \in 1..Len(ops)
    /\ ops[a].pc = "prompt"
    /\ r \in PromptResults
    /\ authStatus' = r
    /\ ops' = [ops EXCEPT ![a] = [@ EXCEPT !.result = r, !.pc = "afterPrompt"]]
    /\ UNCHANGED <<loadPromise, attempts, store, requests, updateLog, unhandled>>
    /\ UNCHANGED scriptVars

\* ensureAccess, lines 94-98, resumed with the prompt's result.
EnsureAccessAfterPrompt(a) ==
    /\ a \in 1..Len(ops)
    /\ ops[a].pc = "afterPrompt"
    /\ LET L == loadNative(attempts, loadPromise)
       IN  IF AccessGranted(ops[a].result)
           THEN /\ WithinAttempts(attempts, loadPromise)
                /\ attempts' = L.attempts
                /\ loadPromise' = L.loadPromise
                /\ ops' = [ops EXCEPT ![a] =
                             [@ EXCEPT !.gate = "passed", !.pc = "load", !.ref = L.ref]]
                /\ UNCHANGED unhandled
           ELSE /\ ops' = [ops EXCEPT ![a] = Rejected(@, "failed", NotGranted(@.result))]
                /\ unhandled' = unhandled \cup {a}
                /\ UNCHANGED <<attempts, loadPromise>>
    /\ UNCHANGED <<authStatus, store, requests, updateLog>>
    /\ UNCHANGED scriptVars

----------------------------------------------------------------------------
(* The data calls of contacts-native.ts, made after the second loadNative() *)

\* searchContacts that scans whenever the name search found nothing.
searchContacts_ScansBlank(st, query, miss) ==
    LET results == getContactsByName(st, query, miss)
        q == trim(toLowerCase(query))
        Keep(c) ==
            LET first == toLowerCase(c.firstName)
                last == toLowerCase(c.lastName)
                full == trim(first \o <<" ">> \o last)
            IN  \/ includes(full, q)
                \/ includes(first, q)
                \/ includes(last, q)
                \/ includes(toLowerCase(c.nickname), q)
                \/ \E i \in 1..Len(c.emailAddresses) :
                       includes(toLowerCase(c.emailAddresses[i]), q)
                \/ \E i \in 1..Len(c.phoneNumbers) : includes(c.phoneNumbers[i], q)
    IN  IF Len(results) > 0
        THEN [calls |-> <<"getContactsByName">>, primary |-> results, value |-> results]
        ELSE [calls |-> <<"getContactsByName", "getAllContacts">>, primary |-> results,
              value |-> SelectSeq(st, Keep)]

\* searchContacts that lower-cases phone numbers before matching.
searchContacts_FoldsPhones(st, query, miss) ==
    LET results == getContactsByName(st, query, miss)
        q == trim(toLowerCase(query))
        Keep(c) ==
            LET first == toLowerCase(c.firstName)
                last == toLowerCase(c.lastName)
                full == trim(first \o <<" ">> \o last)
            IN  \/ includes(full, q)
                \/ includes(first, q)
                \/ includes(last, q)
                \/ includes(toLowerCase(c.nickname), q)
                \/ \E i \in 1..Len(c.emailAddresses) :
                       includes(toLowerCase(c.emailAddresses[i]), q)
                \/ \E i \in 1..Len(c.phoneNumbers) : includes(toLowerCase(c.phoneNumbers[i]), q)
    IN  IF Len(results) > 0 \/ q = Empty
        THEN [calls |-> <<"getContactsByName">>, primary |-> results, value |-> results]
        ELSE [calls |-> <<"getContactsByName", "getAllContacts">>, primary |-> results,
              value |-> SelectSeq(st, Keep)]

\* searchContacts, lines 122-144: the calls made, what the primary name search
\* returned and the value returned.
searchContacts(st, query, miss) ==
    LET results == getContactsByName(st, query, miss)
        q == trim(toLowerCase(query))
        Keep(c) ==
            LET first == toLowerCase(c.firstName)
                last == toLowerCase(c.lastName)
                full == trim(first \o <<" ">> \o last)
            IN  \/ includes(full, q)
                \/ includes(first, q)
                \/ includes(last, q)
                \/ includes(toLowerCase(c.nickname), q)
                \/ \E i \in 1..Len(c.emailAddresses) :
                       includes(toLowerCase(c.emailAddresses[i]), q)
                \/ \E i \in 1..Len(c.phoneNumbers) : includes(c.phoneNumbers[i], q)
    IN  IF Len(results) > 0 \/ q = Empty
        THEN [calls |-> <<"getContactsByName">>, primary |-> results, value |-> results]
        ELSE [calls |-> <<"getContactsByName", "getAllContacts">>, primary |-> results,
              value |-> SelectSeq(st, Keep)]

\* getContactDetails that searches by nickname when both names are empty.
getContactDetails_SearchesNickname(st, identifier, miss) ==
    LET basicMatch == FindById(st, identifier)
        searchName ==
            IF basicMatch = None THEN Empty
            ELSE IF Get(basicMatch).firstName # Empty THEN Get(basicMatch).firstName
            ELSE IF Get(basicMatch).lastName # Empty THEN Get(basicMatch).lastName
            ELSE Get(basicMatch).nickname
        targeted == searchName # Empty
        detailed == IF targeted THEN getContactsByName(st, searchName, miss) ELSE <<>>
        match == IF targeted THEN FindById(detailed, identifier) ELSE None
        phase1 == IF targeted THEN <<"getAllContacts", "getContactsByName+extra">>
                  ELSE <<"getAllContacts">>
        found == FindById(st, identifier)
    IN  IF match # None
        THEN [calls |-> phase1, primary |-> detailed, value |-> <<Get(match)>>]
        ELSE [calls |-> Append(phase1, "getAllContacts+extra"), primary |-> detailed,
              value |-> IF found = None THEN <<>> ELSE <<Get(found)>>]

\* getContactDetails that trusts the targeted search when it made one.
getContactDetails_NoFullScan(st, identifier, miss) ==
    LET basicMatch == FindById(st, identifier)
        searchName ==
            IF basicMatch = None THEN Empty
            ELSE IF Get(basicMatch).firstName # Empty THEN Get(basicMatch).firstName
            ELSE Get(basicMatch).lastName
        targeted == searchName # Empty
        detailed == IF targeted THEN getContactsByName(st, searchName, miss) ELSE <<>>
        match == IF targeted THEN FindById(detailed, identifier) ELSE None
        phase1 == IF targeted THEN <<"getAllContacts", "getContactsByName+extra">>
                  ELSE <<"getAllContacts">>
        found == IF targeted THEN None ELSE FindById(st, identifier)
    IN  IF match # None
        THEN [calls |-> phase1, primary |-> detailed, value |-> <<Get(match)>>]
        ELSE [calls |-> Append(phase1, "getAllContacts+extra"), primary |-> detailed,
              value |-> IF found = None THEN <<>> ELSE <<Get(found)>>]

\* getContactDetails, lines 159-178: the calls made and the value returned
\* (<<>> is null).  "+extra" marks a call with ALL_EXTRA_PROPERTIES.
getContactDetails(st, identifier, miss) ==
    LET basicMatch == FindById(st, identifier)
        searchName ==
            IF basicMatch = None THEN Empty
            ELSE IF Get(basicMatch).firstName # Empty THEN Get(basicMatch).firstName
            ELSE Get(basicMatch).lastName
        targeted == searchName # Empty
        detailed == IF targeted THEN getContactsByName(st, searchName, miss) ELSE <<>>
        match == IF targeted THEN FindById(detailed, identifier) ELSE None
        phase1 == IF targeted THEN <<"getAllContacts", "getContactsByName+extra">>
                  ELSE <<"getAllContacts">>
        found == FindById(st, identifier)
    IN  IF match # None
        THEN [calls |-> phase1, primary |-> detailed, value |-> <<Get(match)>>]
        ELSE [calls |-> Append(phase1, "getAllContacts+extra"), primary |-> detailed,
              value |-> IF found = None THEN <<>> ELSE <<Get(found)>>]

\* Lines 115-116, 121-144, 157-178, 187-188, 195-196, 201-202: the operation,
\* resumed after its own `await loadNative()`, makes its backend calls without
\* suspending again and settles.  ok is the boolean the backend returns.
DataCalls(a, op, miss, ok) ==
    CASE op.kind = "getAllContacts" ->
            [calls |-> <<"getAllContacts">>, primary |-> <<>>, value |-> store, ok |-> FALSE,
             store |-> store, log |-> updateLog]
      [] op.kind = "searchContacts" ->
            [calls |-> searchContacts(store, op.query, miss).calls,
             primary |-> searchContacts(store, op.query, miss).primary,
             value |-> searchContacts(store, op.query, miss).value, ok |-> FALSE,
             store |-> store, log |-> updateLog]
      [] op.kind = "getContactDetails" ->
            [calls |-> getContactDetails(store, op.identifier, miss).calls,
             primary |-> getContactDetails(store, op.identifier, miss).primary,
             value |-> getContactDetails(store, op.identifier, miss).value, ok |-> FALSE,
             store |-> store, log |-> updateLog]
      [] op.kind = "createContact" ->
            [calls |-> <<"addNewContact">>, primary |-> <<>>, value |-> <<>>, ok |-> ok,
             store |-> IF ok THEN addNewContact(store, a, op.payload) ELSE store,
             log |-> updateLog]
      [] op.kind = "updateContact" ->
            [calls |-> <<"updateContact">>, primary |-> <<>>, value |-> <<>>,
             ok |-> ok /\ Stored(store, op.identifier),
             store |-> IF ok THEN backendUpdateContact(store, op.identifier, op.payload)
                       ELSE store,
             log |-> Append(updateLog, [op |-> a, identifier |-> op.identifier,
                                        payload |-> op.payload,
                                        before |-> FindById(store, op.identifier)])]
      [] op.kind = "deleteContact" ->
            [calls |-> <<"deleteContact">>, primary |-> <<>>, value |-> <<>>,
             ok |-> ok /\ Stored(store, op.identifier),
             store |-> IF ok THEN backendDeleteContact(store, op.identifier) ELSE store,
             log |-> updateLog]

\* Mutation: an operation that makes several reads suspends after them.
OpResume_SuspendsBetweenReads(a, miss, ok) ==
    /\ a \in 1..Len(ops)
    /\ ops[a].pc = "load"
    /\ Settled(ops[a].ref)
    /\ IF attempts[ops[a].ref] = "rejected"
       THEN /\ ops' = [ops EXCEPT ![a] = Rejected(@, @.gate, BackendUnavailable)]
            /\ unhandled' = unhandled \cup {a}
            /\ UNCHANGED <<store, updateLog>>
       ELSE LET d == DataCalls(a, ops[a], miss, ok)
            IN  /\ ops' = [ops EXCEPT ![a] =
                             [@ EXCEPT !.calls = d.calls, !.primary = d.primary,
                                       !.value = d.value, !.ok = d.ok,
                                       !.pc = IF Len(d.calls) > 1 THEN "load" ELSE "done",
                                       !.outcome = IF Len(d.calls) > 1 THEN "pending"
                                                   ELSE "resolved"]]
                /\ store' = d.store
                /\ updateLog' = d.log
                /\ UNCHANGED unhandled
    /\ UNCHANGED <<authStatus, loadPromise, attempts, requests>>
    /\ UNCHANGED scriptVars

OpResume(a, miss, ok) ==
    /\ a \in 1..Len(ops)
    /\ ops[a].pc = "load"
    /\ Settled(ops[a].ref)
    /\ IF attempts[ops[a].ref] = "rejected"
       THEN /\ ops' = [ops EXCEPT ![a] = Rejected(@, @.gate, BackendUnavailable)]
            /\ unhandled' = unhandled \cup {a}
            /\ UNCHANGED <<store, updateLog>>
       ELSE LET d == DataCalls(a, ops[a], miss, ok)
            IN  /\ ops' = [ops EXCEPT ![a] =
                             [@ EXCEPT !.calls = d.calls, !.primary = d.primary,
                                       !.value = d.value, !.ok = d.ok,
                                       !.pc = "done", !.outcome = "resolved"]]
                /\ store' = d.store
                /\ updateLog' = d.log
                /\ UNCHANGED unhandled
    /\ UNCHANGED <<authStatus, loadPromise, attempts, requests>>
    /\ UNCHANGED scriptVars

----------------------------------------------------------------------------
(* The tool handlers of index.ts.  The functions of contacts-native.ts are  *)
(* async and the handlers use what they return without await, so what a    *)
(* handler holds is the activation's promise, not its value.               *)

\* JavaScript values a handler holds.
Promise(a) == [type |-> "promise", of |-> a]
\* `!v` is false for every object, a promise included.
Truthy(v) == v.type \notin {"null", "undefined"}
\* `v === "text"` holds only for that string.
StrictEquals(v, text) == v.type = "string" /\ v.text = text
\* `v.f`: a promise has none of a contact's properties.
Property(v, f) == IF v.type = "contact" THEN Some(v.rec[f]) ELSE None
\* `a ?? b`
Coalesce(a, b) == IF a # None THEN a ELSE b

\* utils.ts lines 4-8
toolResult(body) == [isError |-> FALSE, error |-> "", body |-> body]
\* utils.ts lines 13-21
toolError(message) == [isError |-> TRUE, error |-> message, body |-> ""]

Request(tool, identifier, fields, started, response) ==
    [tool |-> tool, identifier |-> identifier, fields |-> fields, started |-> started,
     isError |-> response.isError, error |-> response.error, body |-> response.body]

\* What callers of create_contact pass (firstName is required).
CreateInputs ==
    { [NoFields EXCEPT !.firstName = Some(Alice)],
      [NoFields EXCEPT !.firstName = Some(Alice), !.lastName = Some(Smith)] }

\* What callers of update_contact pass: at most MaxSupplied fields, each with
\* a value that no stored contact carries.
Supplied(f) == IF f \in ScalarFields THEN Some(Zed) ELSE Some(<<Zed>>)
UpdateInputs ==
    { [f \in Fields |-> IF f \in S THEN Supplied(f) ELSE None] :
        S \in {T \in SUBSET Fields : Cardinality(T) <= MaxSupplied} }

\* One exported function is called: it runs up to its first await.
StartOne(tool, kind, identifier, query, payload, response) ==
    /\ Len(ops) + 1 <= MaxOps
    /\ WithinAttempts(attempts, loadPromise)
    /\ LET L == loadNative(attempts, loadPromise)
       IN  /\ attempts' = L.attempts
           /\ loadPromise' = L.loadPromise
           /\ ops' = Append(ops, NewOp(kind, Len(requests) + 1, L.ref,
                                       identifier, query, payload))
           /\ requests' = Append(requests,
                                 Request(tool, identifier, payload, {Len(ops) + 1}, response))
    /\ UNCHANGED <<authStatus, store, updateLog, unhandled>>
    /\ UNCHANGED scriptVars

\* Two exported functions are called one after the other in the same handler.
StartTwo(tool, kind1, kind2, identifier, query, fields, payload1, payload2, response) ==
    /\ Len(ops) + 2 <= MaxOps
    /\ WithinAttempts(attempts, loadPromise)
    /\ LET L1 == loadNative(attempts, loadPromise)
           L2 == loadNative(L1.attempts, L1.loadPromise)
       IN  /\ WithinAttempts(L1.attempts, L1.loadPromise)
           /\ attempts' = L2.attempts
           /\ loadPromise' = L2.loadPromise
           /\ ops' = ops \o
                  << NewOp(kind1, Len(requests) + 1, L1.ref, identifier, query, payload1),
                     NewOp(kind2, Len(requests) + 1, L2.ref, identifier, query, payload2) >>
           /\ requests' = Append(requests,
                                 Request(tool, identifier, fields,
                                         {Len(ops) + 1, Len(ops) + 2}, response))
    /\ UNCHANGED <<authStatus, store, updateLog, unhandled>>
    /\ UNCHANGED scriptVars

\* index.ts lines 28-33
Hint(status) ==
    IF StrictEquals(status, "Not Determined") THEN "not requested yet"
    ELSE IF StrictEquals(status, "Denied") THEN "denied"
    ELSE ""

\* check_contacts_access, index.ts lines 25-38
CheckContactsAccess ==
    LET status == Promise(Len(ops) + 1)
    IN  StartOne("check_contacts_access", "getAuthStatus", "", Empty, NoFields,
                 toolResult(<<"status", Hint(status)>>))

\* search_contacts, index.ts lines 50-57
SearchContactsTool(query) ==
    /\ query \in Queries
    /\ StartOne("search_contacts", "searchContacts", "", query, NoFields,
                toolResult(<<"count", "contacts">>))

\* get_all_contacts, index.ts lines 65-72
GetAllContactsTool ==
    StartOne("get_all_contacts", "getAllContacts", "", Empty, NoFields,
             toolResult(<<"count", "contacts">>))

\* get_contact_details, index.ts lines 80-90
GetContactDetailsTool(identifier) ==
    /\ identifier \in Identifiers
    /\ LET contact == Promise(Len(ops) + 1)
       IN  StartOne("get_contact_details", "getContactDetails", identifier, Empty, NoFields,
                    IF ~Truthy(contact) THEN toolResult(<<"Contact not found">>)
                    ELSE toolResult(<<"contact">>))

\* create_contact, index.ts lines 110-131: `success` is a promise, so line 115
\* runs, and `matches`, a promise too, has no find method: line 116 throws a
\* TypeError that line 128 catches.
CreateContactTool(input) ==
    /\ input \in CreateInputs
    /\ LET success == Promise(Len(ops) + 1)
           matches == Promise(Len(ops) + 2)
       IN  IF Truthy(success)
           THEN StartTwo("create_contact", "createContact", "searchContacts", "",
                         Get(input.firstName), input, input, NoFields,
                         IF matches.type # "array"
                         THEN toolError("matches.find is not a function")
                         ELSE toolResult(<<"created">>))
           ELSE StartOne("create_contact", "createContact", "", Empty, input,
                         toolResult(<<"Failed to create contact">>))

\* Mutation: an omitted sequence is sent as the empty sequence.
UpdatePayload_EmptiesSequences(fields, current) ==
    [f \in Fields |->
        IF f \in ScalarFields THEN Coalesce(fields[f], Property(current, f))
        ELSE Coalesce(fields[f], Some(<<>>))]

\* Mutation: an omitted scalar is sent as the empty text.
UpdatePayload_EmptiesScalars(fields, current) ==
    [f \in Fields |->
        IF f \in ScalarFields THEN Coalesce(fields[f], Some(Empty))
        ELSE fields[f]]

\* update_contact, index.ts lines 160-173: the payload handed to updateContact.
UpdatePayload(fields, current) ==
    [f \in Fields |->
        IF f \in ScalarFields THEN Coalesce(fields[f], Property(current, f))
        ELSE fields[f]]

\* update_contact, index.ts lines 152-183
UpdateContactTool(identifier, fields) ==
    /\ identifier \in Identifiers
    /\ fields \in UpdateInputs
    /\ LET current == Promise(Len(ops) + 1)
           success == Promise(Len(ops) + 2)
       IN  IF ~Truthy(current)
           THEN StartOne("update_contact", "getContactDetails", identifier, Empty, NoFields,
                         toolResult(<<"Contact not found">>))
           ELSE StartTwo("update_contact", "getContactDetails", "updateContact", identifier,
                         Empty, fields, NoFields, UpdatePayload(fields, current),
                         toolResult(<<IF Truthy(success) THEN "Contact updated"
                                      ELSE "Failed to update contact">>))

\* delete_contact, index.ts lines 191-201
DeleteContactTool(identifier) ==
    /\ identifier \in Identifiers
    /\ LET success == Promise(Len(ops) + 1)
       IN  StartOne("delete_contact", "deleteContact", identifier, Empty, NoFields,
                    toolResult(<<IF Truthy(success) THEN "Contact deleted"
                                 ELSE "Failed to delete contact">>))

----------------------------------------------------------------------------
(* The program *)

Init ==
    /\ authStatus \in Status
    /\ loadPromise = Null
    /\ attempts = <<>>
    /\ ops = <<>>
    /\ store = InitialStore
    /\ requests = <<>>
    /\ updateLog = <<>>
    /\ unhandled = {}
    /\ groups = <<>>
    /\ scriptLog = <<>>
    /\ drawn = <<>>

OpIds == 1..Len(ops)

\* The steps of the loader and of the activations, whatever started them.
NativeSteps ==
    \/ \E k \in 1..MaxAttempts : ImportFulfilled(k)
    \/ \E k \in 1..MaxAttempts : ImportRejected(k)
    \/ \E a \in OpIds : GetAuthStatusResume(a)
    \/ \E a \in OpIds : EnsureAccess(a)
    \/ \E a \in OpIds : RequestAccessResume(a)
    \/ \E a \in OpIds, r \in PromptResults : PromptAnswered(a, r)
    \/ \E a \in OpIds : EnsureAccessAfterPrompt(a)
    \/ \E a \in OpIds, miss \in BOOLEAN, ok \in BOOLEAN : OpResume(a, miss, ok)

\* The server under concurrent tool calls, each tool with one input.
Next ==
    \/ CheckContactsAccess
    \/ SearchContactsTool(Alice)
    \/ GetAllContactsTool
    \/ GetContactDetailsTool("c1")
    \/ CreateContactTool([NoFields EXCEPT !.firstName = Some(Alice)])
    \/ UpdateContactTool("c1", [NoFields EXCEPT !.lastName = Some(Zed)])
    \/ DeleteContactTool("c1")
    \/ NativeSteps

Spec == Init /\ [][Next]_vars

\* update_contact over every identifier and every input.
NextUpdate ==
    \/ \E i \in Identifiers, fields \in UpdateInputs : UpdateContactTool(i, fields)
    \/ NativeSteps

SpecUpdate == Init /\ [][NextUpdate]_vars

\* Two update_contact invocations on one contact with disjoint fields, received
\* one right after the other: each handler has run to its end (it has no
\* await) and the four activations they started are pending on one import().
FirstNameOnly == [NoFields EXCEPT !.firstName = Some(Zed)]
LastNameOnly == [NoFields EXCEPT !.lastName = Some(Ali)]

InitTwoUpdates ==
    LET L == loadNative(<<>>, Null)
        Started(inv, fields) ==
            << NewOp("getContactDetails", inv, L.ref, "c1", Empty, NoFields),
               NewOp("updateContact", inv, L.ref, "c1", Empty,
                     UpdatePayload(fields, Promise(2 * inv - 1))) >>
        Received(inv, fields) ==
            Request("update_contact", "c1", fields, {2 * inv - 1, 2 * inv},
                    toolResult(<<"Contact updated">>))
    IN  /\ authStatus \in Status
        /\ loadPromise = L.loadPromise
        /\ attempts = L.attempts
        /\ ops = Started(1, FirstNameOnly) \o Started(2, LastNameOnly)
        /\ store = InitialStore
        /\ requests = <<Received(1, FirstNameOnly), Received(2, LastNameOnly)>>
        /\ updateLog = <<>>
        /\ unhandled = {}
        /\ groups = <<>>
        /\ scriptLog = <<>>
        /\ drawn = <<>>

NextTwoUpdates == NativeSteps

SpecTwoUpdates == InitTwoUpdates /\ [][NextTwoUpdates]_vars

\* The authorization record belongs to the operating system: the user grants
\* or revokes access in the system settings while the server runs.
OSStatusChanges(status) ==
    /\ status # authStatus
    /\ authStatus' = status
    /\ UNCHANGED <<loadPromise, attempts, ops, store, requests, updateLog, unhandled>>
    /\ UNCHANGED scriptVars

\* One read and one write tool while the operating system changes the status.
NextRevoke ==
    \/ Len(ops) < MaxReads /\ GetAllContactsTool
    \/ Len(ops) < MaxReads /\ DeleteContactTool("c1")
    \/ NativeSteps
    \/ \E status \in Status : OSStatusChanges(status)

SpecRevoke == Init /\ [][NextRevoke]_vars

\* The read-only program: search_contacts and get_contact_details over every
\* query and identifier, on the address book ReadStore.
InitRead ==
    /\ authStatus \in Status
    /\ loadPromise = Null
    /\ attempts = <<>>
    /\ ops = <<>>
    /\ store = ReadStore
    /\ requests = <<>>
    /\ updateLog = <<>>
    /\ unhandled = {}
    /\ groups = <<>>
    /\ scriptLog = <<>>
    /\ drawn = <<>>

NextRead ==
    \/ \E q \in Queries : Len(ops) < MaxReads /\ SearchContactsTool(q)
    \/ \E i \in Identifiers : Len(ops) < MaxReads /\ GetContactDetailsTool(i)
    \/ NativeSteps

SpecRead == InitRead /\ [][NextRead]_vars

----------------------------------------------------------------------------
(* The scripted backend: contacts-applescript.ts *)

\* String.prototype.replace with a global pattern matching the character c.
RECURSIVE replaceAll(_, _, _)
replaceAll(str, c, by) ==
    IF str = <<>> THEN <<>>
    ELSE (IF Head(str) = c THEN by ELSE <<Head(str)>>) \o replaceAll(Tail(str), c, by)

\* Mutation: the backslashes are not doubled.
escapeAS_KeepsBackslashes(str) ==
    replaceAll(replaceAll(replaceAll(str, Quote, <<Backslash, Quote>>), CR, <<>>), LF, <<>>)

\* Mutation: the quotes are escaped before the backslashes are doubled.
escapeAS_QuotesFirst(str) ==
    replaceAll(replaceAll(replaceAll(replaceAll(str,
        Quote, <<Backslash, Quote>>), Backslash, <<Backslash, Backslash>>), CR, <<>>), LF, <<>>)

\* escapeAS, lines 33-39
escapeAS(str) ==
    replaceAll(replaceAll(replaceAll(replaceAll(str,
        Backslash, <<Backslash, Backslash>>), Quote, <<Backslash, Quote>>), CR, <<>>), LF, <<>>)

\* String.prototype.split with a non-empty separator.
RECURSIVE split(_, _)
split(str, sep) ==
    LET at == {i \in 1..(Len(str) - Len(sep) + 1) : SubSeq(str, i, i + Len(sep) - 1) = sep}
    IN  IF at = {} THEN <<str>>
        ELSE LET i == CHOOSE j \in at : \A k \in at : j <= k
             IN  <<SubSeq(str, 1, i - 1)>> \o split(SubSeq(str, i + Len(sep), Len(str)), sep)

Separator == <<",", " ">>

\* What execFileSync("osascript", ...) does: it returns the standard output, or
\* throws.  The thrown value is an Error, with or without a stderr text, or
\* some other value; `string` is what String() makes of it.
Printed(stdout) ==
    [threw |-> FALSE, stdout |-> stdout, isError |-> FALSE, stderr |-> None,
     message |-> <<>>, string |-> <<>>]
Thrown(isError, stderr, message, string) ==
    [threw |-> TRUE, stdout |-> <<>>, isError |-> isError, stderr |-> stderr,
     message |-> message, string |-> string]

ScriptErrorDetail == <<"script error detail">>
CommandFailed == <<"Command failed">>
RawStringError == <<"raw string error">>

Failures ==
    { Thrown(TRUE, Some(ScriptErrorDetail), CommandFailed, <<"Error: Command failed">>),
      Thrown(TRUE, Some(<<>>), CommandFailed, <<"Error: Command failed">>),
      Thrown(TRUE, None, CommandFailed, <<"Error: Command failed">>),
      Thrown(FALSE, None, <<>>, RawStringError) }

ErrorPrefix == <<"AppleScript error: ">>

\* Mutation: the Error's message is preferred to its stderr.
runAppleScript_MessageFirst(exec) ==
    IF ~exec.threw THEN [threw |-> FALSE, value |-> trim(exec.stdout)]
    ELSE [threw |-> TRUE,
          value |-> ErrorPrefix \o
              (IF exec.isError
               THEN (IF exec.message # <<>> THEN exec.message ELSE Get(exec.stderr))
               ELSE exec.string)]

\* runAppleScript, lines 12-27, given what execFileSync did: the trimmed
\* output, or the message of the Error thrown.
runAppleScript(exec) ==
    IF ~exec.threw THEN [threw |-> FALSE, value |-> trim(exec.stdout)]
    ELSE [threw |-> TRUE,
          value |-> ErrorPrefix \o
              (IF exec.isError
               THEN (IF exec.stderr # None /\ Get(exec.stderr) # <<>>
                     THEN Get(exec.stderr) ELSE exec.message)
               ELSE exec.string)]

\* A script: which template it is, and the literals placed between its quotes.
Script(template, literals) == [template |-> template, literals |-> literals]

listGroupsScript == Script("listGroups", <<>>)
createGroupScript(name) == Script("createGroup", <<escapeAS(name), escapeAS(name)>>)
deleteGroupScript(name) == Script("deleteGroup", <<escapeAS(name), escapeAS(name)>>)
getGroupMembersScript(groupName) ==
    Script("getGroupMembers", <<escapeAS(groupName), escapeAS(groupName)>>)
addContactToGroupScript(contactName, groupName) ==
    Script("addContactToGroup", <<escapeAS(contactName), escapeAS(groupName)>>)
removeContactFromGroupScript(contactName, groupName) ==
    Script("removeContactFromGroup", <<escapeAS(contactName), escapeAS(groupName)>>)
exportContactVCardScript(contactName) ==
    Script("exportContactVCard", <<escapeAS(contactName)>>)

\* What a function returns, or the message of the Error it throws.
Returned(list, success, message) ==
    [threw |-> FALSE, error |-> <<>>, list |-> list, success |-> success, message |-> message]
Raised(error) ==
    [threw |-> TRUE, error |-> error, list |-> <<>>, success |-> FALSE, message |-> <<>>]

Created == <<"created">>
Exists == <<"exists">>
Deleted == <<"deleted">>
NotFound == <<"not_found">>
Sentinel == <<"GROUP_NOT_FOUND">>

\* `Group "${name}" created`, `... already exists`, `... not found`, `... deleted`
GroupMessage(name, what) == <<"Group ", Quote>> \o name \o <<Quote, " ", what>>
\* `Added "${contactName}" to group "${groupName}"` and `Removed ... from group ...`
MemberMessage(verb, contactName, link, groupName) ==
    <<verb, Quote>> \o contactName \o <<Quote, link, Quote>> \o groupName \o <<Quote>>

\* Mutation: names are split on the comma alone.
Names_SplitOnComma(result) == IF result = <<>> THEN <<>> ELSE split(result, <<",">>)

\* Lines 47-49 and 118-119: the trimmed output as a list of names.
Names(result) == IF result = <<>> THEN <<>> ELSE split(result, Separator)

\* listGroups, lines 45-50
listGroups(exec) ==
    LET result == runAppleScript(exec)
    IN  IF result.threw THEN Raised(result.value)
        ELSE Returned(Names(result.value), TRUE, <<>>)

\* Mutation: the group is reported as created whatever the script printed.
createGroup_ReportsCreated(name, exec) ==
    LET result == runAppleScript(exec)
    IN  IF result.threw THEN Raised(result.value)
        ELSE Returned(<<>>, TRUE, GroupMessage(name, "created"))

\* createGroup, lines 52-68
createGroup(name, exec) ==
    LET result == runAppleScript(exec)
    IN  IF result.threw THEN Raised(result.value)
        ELSE Returned(<<>>, TRUE,
                      IF result.value = Created THEN GroupMessage(name, "created")
                      ELSE GroupMessage(name, "already exists"))

\* deleteGroup, lines 70-86
deleteGroup(name, exec) ==
    LET result == runAppleScript(exec)
    IN  IF result.threw THEN Raised(result.value)
        ELSE IF result.value = NotFound
             THEN Returned(<<>>, FALSE, GroupMessage(name, "not found"))
             ELSE Returned(<<>>, TRUE, GroupMessage(name, "deleted"))

\* getGroupMembers, lines 88-120
getGroupMembers(groupName, exec) ==
    LET result == runAppleScript(exec)
    IN  IF result.threw THEN Raised(result.value)
        ELSE IF result.value = Sentinel THEN Raised(GroupMessage(groupName, "not found"))
        ELSE Returned(Names(result.value), TRUE, <<>>)

\* addContactToGroup, lines 122-138
addContactToGroup(contactName, groupName, exec) ==
    LET result == runAppleScript(exec)
    IN  IF result.threw THEN Raised(result.value)
        ELSE Returned(<<>>, TRUE, MemberMessage("Added ", contactName, " to group ", groupName))

\* removeContactFromGroup, lines 140-155
removeContactFromGroup(contactName, groupName, exec) ==
    LET result == runAppleScript(exec)
    IN  IF result.threw THEN Raised(result.value)
        ELSE Returned(<<>>, TRUE,
                      MemberMessage("Removed ", contactName, " from group ", groupName))

\* exportContactVCard, lines 161-167: the vCard text is the message.
exportContactVCard(contactName, exec) ==
    LET result == runAppleScript(exec)
    IN  IF result.threw THEN Raised(result.value)
        ELSE Returned(<<>>, TRUE, result.value)

\* A handler of index.ts lines 208-321 calls one function inside try/catch and
\* answers with toolResult or, when the function threw, with toolError.  exec is
\* what the interpreter did with the script, run what runAppleScript made of
\* it, and after is the groups the script left.
ScriptedCall(tool, names, script, exec, result, after) ==
    /\ scriptLog' = Append(scriptLog,
           [tool |-> tool, names |-> names, script |-> script, exec |-> exec,
            run |-> runAppleScript(exec), result |-> result,
            response |-> IF result.threw THEN toolError(result.error)
                         ELSE toolResult(<<tool>>),
            before |-> groups, after |-> after])
    /\ groups' = after
    /\ UNCHANGED drawn
    /\ UNCHANGED nativeVars

\* list_groups, index.ts lines 208-221
ListGroupsTool(exec, after) ==
    ScriptedCall("list_groups", <<>>, listGroupsScript, exec, listGroups(exec), after)

\* create_group, index.ts lines 223-236
CreateGroupTool(name, exec, after) ==
    /\ name # <<>>
    /\ ScriptedCall("create_group", <<name>>, createGroupScript(name), exec,
                    createGroup(name, exec), after)

\* delete_group, index.ts lines 238-251
DeleteGroupTool(name, exec, after) ==
    /\ name # <<>>
    /\ ScriptedCall("delete_group", <<name>>, deleteGroupScript(name), exec,
                    deleteGroup(name, exec), after)

\* get_group_members, index.ts lines 253-266
GetGroupMembersTool(groupName, exec, after) ==
    /\ groupName # <<>>
    /\ ScriptedCall("get_group_members", <<groupName>>, getGroupMembersScript(groupName),
                    exec, getGroupMembers(groupName, exec), after)

\* add_contact_to_group, index.ts lines 268-284
AddContactToGroupTool(contactName, groupName, exec, after) ==
    /\ contactName # <<>> /\ groupName # <<>>
    /\ ScriptedCall("add_contact_to_group", <<contactName, groupName>>,
                    addContactToGroupScript(contactName, groupName), exec,
                    addContactToGroup(contactName, groupName, exec), after)

\* remove_contact_from_group, index.ts lines 286-302
RemoveContactFromGroupTool(contactName, groupName, exec, after) ==
    /\ contactName # <<>> /\ groupName # <<>>
    /\ ScriptedCall("remove_contact_from_group", <<contactName, groupName>>,
                    removeContactFromGroupScript(contactName, groupName), exec,
                    removeContactFromGroup(contactName, groupName, exec), after)

\* export_contact_vcard, index.ts lines 308-321
ExportContactVCardTool(contactName, exec, after) ==
    /\ contactName # <<>>
    /\ ScriptedCall("export_contact_vcard", <<contactName>>,
                    exportContactVCardScript(contactName), exec,
                    exportContactVCard(contactName, exec), after)

\* The scripted functions under a mocked interpreter, as in the tests of
\* contacts-applescript.ts: one text is drawn, one function is called with it
\* as a name, and the interpreter prints it, prints one of the words the
\* scripts return, or fails.
Alphabet == {"a", ",", " ", Backslash, Quote, CR, LF}
Texts == UNION {[1..n -> Alphabet] : n \in 0..MaxLen}
\* Printed and passed texts: those that combine the separator characters, and
\* those that combine the escaped ones.
Drawn ==
    {t \in Texts : \/ \A i \in 1..Len(t) : t[i] \in {"a", ",", " ", LF}
                   \/ \A i \in 1..Len(t) : t[i] \in {"a", Backslash, Quote, CR, LF}}

Work == <<"W", "o", "r", "k">>

MockRuns ==
    {Printed(out) : out \in {drawn, Created \o <<LF>>, Exists, NotFound, Sentinel \o <<LF>>}}
        \cup Failures

InitMock ==
    /\ authStatus = "Authorized"
    /\ loadPromise = Null
    /\ attempts = <<>>
    /\ ops = <<>>
    /\ store = InitialStore
    /\ requests = <<>>
    /\ updateLog = <<>>
    /\ unhandled = {}
    /\ groups = <<>>
    /\ scriptLog = <<>>
    /\ drawn \in Drawn

\* One function is called in a run under the mocked interpreter.
Uncalled == scriptLog = <<>>

NextMock ==
    \/ \E exec \in MockRuns : Uncalled /\ ListGroupsTool(exec, groups)
    \/ \E exec \in MockRuns : Uncalled /\ CreateGroupTool(drawn, exec, groups)
    \/ \E exec \in MockRuns : Uncalled /\ DeleteGroupTool(drawn, exec, groups)
    \/ \E exec \in MockRuns : Uncalled /\ GetGroupMembersTool(drawn, exec, groups)
    \/ \E exec \in MockRuns, pair \in {<<drawn, Work>>, <<Work, drawn>>} :
           Uncalled /\ AddContactToGroupTool(pair[1], pair[2], exec, groups)
    \/ \E exec \in MockRuns, pair \in {<<drawn, Work>>, <<Work, drawn>>} :
           Uncalled /\ RemoveContactFromGroupTool(pair[1], pair[2], exec, groups)
    \/ \E exec \in MockRuns : Uncalled /\ ExportContactVCardTool(drawn, exec, groups)

SpecMock == InitMock /\ [][NextMock]_vars

\* The Contacts application as the scripts address it.  A group is a name and
\* its member people; a person has a first and a last name, either of which may
\* be missing.
Person(first, last) == [first |-> first, last |-> last]
People == << Person(Some(Alice), Some(Smith)), Person(Some(Sentinel), None) >>
AliceSmith == Alice \o <<" ">> \o Smith

Group(name, members) == [name |-> name, members |-> members]
Tricky == <<Quote, "W", Backslash, LF>>
GroupNames == {Work, Tricky}
ContactNames == {AliceSmith, Sentinel}

\* `name of person`
PersonName(p) ==
    IF p.first # None /\ p.last # None THEN Get(p.first) \o <<" ">> \o Get(p.last)
    ELSE IF p.first # None THEN Get(p.first)
    ELSE IF p.last # None THEN Get(p.last)
    ELSE <<>>

\* Lines 95-110 of the getGroupMembers script: first and last name, else the
\* first, else the last, else "(unnamed)".
MemberName(p) == IF PersonName(p) = <<>> THEN <<"(unnamed)">> ELSE PersonName(p)

\* The text a string literal of a script denotes: a backslash makes the
\* character after it literal.
RECURSIVE literalText(_)
literalText(lit) ==
    IF lit = <<>> THEN <<>>
    ELSE IF Head(lit) = Backslash /\ Len(lit) >= 2
         THEN <<lit[2]>> \o literalText(SubSeq(lit, 3, Len(lit)))
         ELSE <<Head(lit)>> \o literalText(Tail(lit))

\* A list of texts printed with ", " between its items.
RECURSIVE joined(_)
joined(list) ==
    IF list = <<>> THEN <<>>
    ELSE IF Len(list) = 1 THEN list[1]
    ELSE list[1] \o Separator \o joined(Tail(list))

GroupsNamed(gs, name) == {i \in 1..Len(gs) : gs[i].name = name}
PeopleNamed(name) == {i \in 1..Len(People) : PersonName(People[i]) = name}
FirstOf(S) == CHOOSE i \in S : \A j \in S : i <= j

ExecutionError == Thrown(TRUE, Some(<<"execution error">>), CommandFailed,
                         <<"Error: Command failed">>)
TimedOut == Thrown(TRUE, Some(<<>>), CommandFailed, <<"Error: Command failed">>)
Ran(out, after) == [exec |-> Printed(out \o <<LF>>), after |-> after]
Failed(exec, after) == [exec |-> exec, after |-> after]

\* What the Contacts application does with a script: what osascript prints,
\* or the failure, and the groups afterwards.
Interpret(script, gs) ==
    LET lit(i) == literalText(script.literals[i])
        t == script.template
    IN  IF t = "listGroups"
        THEN Ran(joined([i \in 1..Len(gs) |-> gs[i].name]), gs)
        ELSE IF t = "createGroup"
        THEN IF GroupsNamed(gs, lit(1)) = {}
             THEN Ran(Created, Append(gs, Group(lit(2), <<>>)))
             ELSE Ran(Exists, gs)
        ELSE IF t = "deleteGroup"
        THEN IF GroupsNamed(gs, lit(1)) # {}
             THEN Ran(Deleted, SelectSeq(gs, LAMBDA g : g.name # lit(2)))
             ELSE Ran(NotFound, gs)
        ELSE IF t = "getGroupMembers"
        THEN IF GroupsNamed(gs, lit(1)) = {}
             THEN Ran(Sentinel, gs)
             ELSE LET g == gs[FirstOf(GroupsNamed(gs, lit(2)))]
                  IN  Ran(joined([i \in 1..Len(g.members) |->
                                     MemberName(People[g.members[i]])]), gs)
        ELSE IF t \in {"addContactToGroup", "removeContactFromGroup"}
        THEN IF PeopleNamed(lit(1)) = {} \/ GroupsNamed(gs, lit(2)) = {}
             THEN Failed(ExecutionError, gs)
             ELSE LET p == FirstOf(PeopleNamed(lit(1)))
                      k == FirstOf(GroupsNamed(gs, lit(2)))
                      others == SelectSeq(gs[k].members, LAMBDA m : m # p)
                  IN  IF t = "addContactToGroup"
                      THEN Ran(<<"added">>,
                               [gs EXCEPT ![k].members = Append(others, p)])
                      ELSE Ran(<<"removed">>, [gs EXCEPT ![k].members = others])
        ELSE IF PeopleNamed(lit(1)) = {}
             THEN Failed(ExecutionError, gs)
             ELSE Ran(<<"BEGIN:VCARD">>, gs)

\* A run of a script: the application executes it, or osascript times out.
GroupRuns(script) == {Interpret(script, groups), Failed(TimedOut, groups)}

InitialGroups == { <<>>, <<Group(Work, <<2>>)>> }

InitGroups ==
    /\ authStatus = "Authorized"
    /\ loadPromise = Null
    /\ attempts = <<>>
    /\ ops = <<>>
    /\ store = InitialStore
    /\ requests = <<>>
    /\ updateLog = <<>>
    /\ unhandled = {}
    /\ groups \in InitialGroups
    /\ scriptLog = <<>>
    /\ drawn = <<>>

WithinScripts == Len(scriptLog) < MaxScripts

NextGroups ==
    \/ \E run \in GroupRuns(listGroupsScript) :
           WithinScripts /\ ListGroupsTool(run.exec, run.after)
    \/ \E name \in GroupNames : \E run \in GroupRuns(createGroupScript(name)) :
           WithinScripts /\ CreateGroupTool(name, run.exec, run.after)
    \/ \E name \in GroupNames : \E run \in GroupRuns(deleteGroupScript(name)) :
           WithinScripts /\ DeleteGroupTool(name, run.exec, run.after)
    \/ \E name \in GroupNames : \E run \in GroupRuns(getGroupMembersScript(name)) :
           WithinScripts /\ GetGroupMembersTool(name, run.exec, run.after)
    \/ \E c \in ContactNames, g \in GroupNames :
           \E run \in GroupRuns(addContactToGroupScript(c, g)) :
               WithinScripts /\ AddContactToGroupTool(c, g, run.exec, run.after)
    \/ \E c \in ContactNames, g \in GroupNames :
           \E run \in GroupRuns(removeContactFromGroupScript(c, g)) :
               WithinScripts /\ RemoveContactFromGroupTool(c, g, run.exec, run.after)
    \/ \E c \in ContactNames : \E run \in GroupRuns(exportContactVCardScript(c)) :
           WithinScripts /\ ExportContactVCardTool(c, run.exec, run.after)

SpecGroups == InitGroups /\ [][NextGroups]_vars

\* create_group with a drawn name and list_groups, on an application that
\* starts without groups.
InitRoundTrip ==
    /\ authStatus = "Authorized"
    /\ loadPromise = Null
    /\ attempts = <<>>
    /\ ops = <<>>
    /\ store = InitialStore
    /\ requests = <<>>
    /\ updateLog = <<>>
    /\ unhandled = {}
    /\ groups = <<>>
    /\ scriptLog = <<>>
    /\ drawn \in Drawn \ {<<>>}

NextRoundTrip ==
    \/ \E run \in GroupRuns(createGroupScript(drawn)) :
           WithinScripts /\ CreateGroupTool(drawn, run.exec, run.after)
    \/ \E run \in GroupRuns(listGroupsScript) :
           WithinScripts /\ ListGroupsTool(run.exec, run.after)

SpecRoundTrip == InitRoundTrip /\ [][NextRoundTrip]_vars

----------------------------------------------------------------------------
(* Properties *)

OpSet == 1..Len(ops)
GatedOps == {a \in OpSet : ops[a].kind \in GatedKinds}
Granting == {"Authorized", "Limited"}

\* The activation calls loadNative() in this step: a handler starts it, or it
\* leaves ensureAccess for its own load or for requestAccess.
CallsLoadNative(a) ==
    \/ a > Len(ops)
    \/ /\ ops[a].pc \in {"ensureAccess", "afterPrompt"}
       /\ ops'[a].pc \in {"load", "requestAccess"}

\* C1: a structured-backend operation makes a backend data call only after
\* ensureAccess succeeded in the same invocation, and an operation whose
\* ensureAccess failed is rejected without having made any data call.
C1_GateBeforeData ==
    \A a \in GatedOps :
        /\ ops[a].calls # <<>> => ops[a].gate = "passed"
        /\ ops[a].gate = "failed" => ops[a].outcome = "rejected" /\ ops[a].calls = <<>>

C1_Witness ==
    \E a, b \in GatedOps :
        /\ ops[a].gate = "passed" /\ ops[a].calls # <<>>
        /\ ops[b].gate = "failed" /\ ops[b].outcome = "rejected"

\* C2: once ensureAccess has completed, it has succeeded exactly when the
\* status read was Authorized or Limited, or was Not Determined and the access
\* request returned Authorized or Limited.
C2_EnsureAccessOutcome ==
    \A a \in GatedOps :
        ops[a].gate # "none" =>
            (ops[a].gate = "passed" <=>
                \/ ops[a].status \in Granting
                \/ ops[a].status = "Not Determined" /\ ops[a].result \in Granting)

C2_Witness ==
    \E a, b \in GatedOps :
        /\ ops[a].gate = "passed" /\ ops[a].status = "Not Determined"
        /\ ops[a].result = "Limited"
        /\ ops[b].gate = "failed" /\ ops[b].status = "Not Determined"
        /\ ops[b].result = "Denied"

\* C3: within one ensureAccess the permission prompt is requested once when
\* the status read was Not Determined and never for any other status; a
\* failure on another status names that status, and the failure after a
\* refused prompt is the "not granted" one with the post-prompt status.
C3_PromptOnlyWhenNotDetermined ==
    \A a \in GatedOps :
        /\ ops[a].prompts <= 1
        /\ ops[a].prompts = 1 => ops[a].status = "Not Determined"
        /\ ops[a].gate # "none" /\ ops[a].status = "Not Determined" => ops[a].prompts = 1
        /\ ops[a].gate = "failed" /\ ops[a].status \notin {"", "Not Determined"} =>
               ops[a].error = [kind |-> "Contacts access is currently",
                               status |-> ops[a].status]
        /\ ops[a].gate = "failed" /\ ops[a].status = "Not Determined" =>
               ops[a].error = [kind |-> "Contacts access was not granted",
                               status |-> ops[a].result]

C3_Witness ==
    \E a \in GatedOps :
        /\ ops[a].status = "Not Determined" /\ ops[a].prompts = 1
        /\ ops[a].gate = "failed" /\ ops[a].result = "Denied"

\* C4: at most one load attempt is in flight, every caller suspended on an
\* in-flight load holds that one attempt, and every caller resumed from a load
\* got the outcome of the attempt it held.
C4_SingleFlight ==
    /\ Cardinality({k \in 1..Len(attempts) : attempts[k] = "pending"}) <= 1
    /\ \A a \in OpSet :
        /\ ops[a].pc \in {"getAuthStatus", "requestAccess", "load"}
             /\ attempts[ops[a].ref] = "pending" => ops[a].ref = loadPromise
        /\ ops[a].error = BackendUnavailable => attempts[ops[a].ref] = "rejected"
        /\ ops[a].pc \in {"ensureAccess", "prompt", "afterPrompt"}
             \/ ops[a].outcome = "resolved" => attempts[ops[a].ref] = "fulfilled"

C4_Witness ==
    \E a, b \in OpSet :
        /\ a # b
        /\ ops[a].pc = "getAuthStatus" /\ ops[b].pc = "getAuthStatus"
        /\ ops[a].ref = ops[b].ref /\ attempts[ops[a].ref] = "pending"
        /\ ops[a].inv # ops[b].inv

\* C5: once a load attempt has succeeded the cached promise stays what it is,
\* no further attempt is started, and every loadNative call returns it.
C5_Step ==
    (\E k \in 1..Len(attempts) : attempts[k] = "fulfilled") =>
        /\ loadPromise # Null
        /\ loadPromise' = loadPromise
        /\ attempts' = attempts
        /\ \A a \in 1..Len(ops') : CallsLoadNative(a) => ops'[a].ref = loadPromise

C5_LoadOnce == [][C5_Step]_vars

C5_Witness ==
    /\ Len(attempts) = 1
    /\ Len(ops) = 2
    /\ ops[1].outcome = "resolved" /\ ops[1].inv = 1
    /\ ops[2].outcome = "resolved" /\ ops[2].inv = 2
    /\ ops[2].ref = loadPromise

\* C6: when a load attempt fails the cache is cleared and no attempt is
\* started by that; the callers holding the failed attempt are rejected with
\* the backend-unavailable error; an attempt is started only by a loadNative
\* call that finds the cache empty, and every such call starts one.
C6_Step ==
    /\ \A k \in 1..Len(attempts) :
          attempts[k] = "pending" /\ attempts'[k] = "rejected" =>
              loadPromise' = Null /\ Len(attempts') = Len(attempts)
    /\ \A a \in OpSet :
          /\ ops[a].pc \in {"getAuthStatus", "requestAccess", "load"}
          /\ attempts[ops[a].ref] = "rejected"
          /\ ops'[a] # ops[a]
          => ops'[a].outcome = "rejected" /\ ops'[a].error = BackendUnavailable
    /\ Len(attempts') > Len(attempts) =>
          /\ loadPromise = Null
          /\ \E a \in 1..Len(ops') : CallsLoadNative(a)
    /\ (loadPromise = Null /\ \E a \in 1..Len(ops') : CallsLoadNative(a)) =>
          /\ Len(attempts') > Len(attempts)
          /\ loadPromise' # Null
          /\ attempts'[loadPromise'] = "pending"

C6_RetryOnlyOnFreshCall == [][C6_Step]_vars

C6_Witness ==
    /\ attempts = <<"rejected", "fulfilled">>
    /\ \E a, b \in OpSet :
        /\ ops[a].error = BackendUnavailable /\ ops[a].ref = 1
        /\ ops[b].outcome = "resolved" /\ ops[b].ref = 2

\* C7: every failure of an operation a tool handler calls comes back as the
\* handler's {error: message} payload with the error flag, and none reaches
\* the process as an unhandled rejection.
C7_NoFailureEscapes ==
    /\ unhandled = {}
    /\ \A a \in OpSet :
          ops[a].outcome = "rejected" =>
              /\ requests[ops[a].inv].isError
              /\ requests[ops[a].inv].error = ops[a].error.kind

\* What the backend's update operation received, with the caller's input.
Updates ==
    { [payload |-> updateLog[i].payload, before |-> updateLog[i].before,
       fields |-> requests[ops[updateLog[i].op].inv].fields] : i \in 1..Len(updateLog) }

\* C8: in the payload update_contact sends to the backend, each scalar field
\* the caller omitted carries the value stored before the update, and each
\* one the caller supplied carries the caller's value.
C8_OmittedScalarsKeepStored ==
    \A u \in Updates :
        u.before # None =>
            \A f \in ScalarFields :
                u.payload[f] = IF u.fields[f] # None THEN u.fields[f]
                               ELSE Some(Get(u.before)[f])

\* C9: in the payload update_contact sends to the backend, each sequence
\* field is the caller's sequence when supplied and is absent when omitted,
\* whatever the stored contact holds.
C9_SequencesReplacedOrAbsent ==
    \A u \in Updates :
        \A f \in SeqFields : u.payload[f] = u.fields[f]

C9_Witness ==
    \E u \in Updates :
        /\ u.payload.phoneNumbers = Some(<<Zed>>)
        /\ u.payload.emailAddresses = None
        /\ u.before # None
        /\ Get(u.before).emailAddresses # <<>>

\* C10: when getContactDetails yields null for the identifier, update_contact
\* answers "Contact not found" and the backend's update is not called.
C10_NotFoundStopsUpdate ==
    \A r \in 1..Len(requests) :
        \A a \in requests[r].started :
            /\ requests[r].tool = "update_contact"
            /\ ops[a].kind = "getContactDetails"
            /\ ops[a].outcome = "resolved"
            /\ ops[a].value = <<>>
            => /\ requests[r].body = <<"Contact not found">>
               /\ \A b \in requests[r].started : ops[b].calls # <<"updateContact">>

Searches == {a \in OpSet : ops[a].kind = "searchContacts" /\ ops[a].outcome = "resolved"}
Scanned(a) == \E i \in 1..Len(ops[a].calls) : ops[a].calls[i] = "getAllContacts"

\* C11: a search fetches all contacts only when its name search returned no
\* match and the trimmed lower-cased query is not empty; otherwise it makes
\* the name search alone and returns that search's result unchanged.
C11_FallbackOnlyOnEmptyPrimary ==
    \A a \in Searches :
        /\ Scanned(a) <=>
               ops[a].primary = <<>> /\ trim(toLowerCase(ops[a].query)) # Empty
        /\ ~Scanned(a) =>
               ops[a].calls = <<"getContactsByName">> /\ ops[a].value = ops[a].primary

C11_Witness ==
    \E a \in Searches :
        /\ ops[a].query = Blank
        /\ ops[a].calls = <<"getContactsByName">>
        /\ ops[a].value = <<>>

\* The match the fallback scan is said to make on one contact.
C12_Matches(c, q) ==
    \/ includes(trim(toLowerCase(c.firstName \o <<" ">> \o c.lastName)), q)
    \/ includes(toLowerCase(c.firstName), q)
    \/ includes(toLowerCase(c.lastName), q)
    \/ includes(toLowerCase(c.nickname), q)
    \/ \E m \in {c.emailAddresses[i] : i \in 1..Len(c.emailAddresses)} :
           includes(toLowerCase(m), q)
    \/ \E n \in {c.phoneNumbers[i] : i \in 1..Len(c.phoneNumbers)} : includes(n, q)

\* C12: a search that scanned returns, in backend order, exactly the stored
\* contacts whose lower-cased full name, first name, last name, nickname or
\* some e-mail address contains the lower-cased trimmed query, or one of whose
\* phone numbers, as stored, contains it.
C12_FallbackMatches ==
    \A a \in Searches :
        Scanned(a) =>
            ops[a].value =
                SelectSeq(store, LAMBDA c : C12_Matches(c, trim(toLowerCase(ops[a].query))))

C12_Witness ==
    \E a \in Searches :
        /\ Scanned(a)
        /\ ops[a].query = PaddedAli
        /\ Ids(ops[a].value) = <<"c1", "c2">>

Details == {a \in OpSet : ops[a].kind = "getContactDetails" /\ ops[a].outcome = "resolved"}
Nameless(c) == c.firstName = Empty /\ c.lastName = Empty

\* C13: getContactDetails for a stored contact whose first and last name are
\* both empty never calls getContactsByName: it reads all contacts, then all
\* contacts with the extended properties, and returns the record found there.
C13_NamelessSkipsNameSearch ==
    \A a \in Details :
        \A i \in 1..Len(store) :
            store[i].identifier = ops[a].identifier /\ Nameless(store[i]) =>
                /\ ops[a].calls = <<"getAllContacts", "getAllContacts+extra">>
                /\ ops[a].value = <<store[i]>>

C13_Witness ==
    \E a \in Details :
        /\ ops[a].identifier = "c2"
        /\ ops[a].value # <<>>
        /\ Nameless(ops[a].value[1])

\* C14: getContactDetails resolves with null, without raising, when the
\* identifier matches no stored record in either phase, and get_contact_details
\* answers that null with the not-found payload, without the error flag.
C14_NullReportedAsNotFound ==
    \A a \in OpSet :
        /\ ops[a].kind = "getContactDetails"
        /\ ops[a].calls # <<>>
        /\ FindById(store, ops[a].identifier) = None
        => /\ ops[a].outcome = "resolved"
           /\ ops[a].value = <<>>
           /\ requests[ops[a].inv].tool = "get_contact_details" =>
                  /\ ~requests[ops[a].inv].isError
                  /\ requests[ops[a].inv].body = <<"Contact not found">>

\* C15: create_contact with a first name alone, when the backend created the
\* contact, answers with the created payload, not with an error.
C15_CreateReportsSuccess ==
    \A r \in 1..Len(requests) :
        /\ requests[r].tool = "create_contact"
        /\ \E a \in requests[r].started :
               /\ ops[a].kind = "createContact"
               /\ ops[a].outcome = "resolved"
               /\ ops[a].ok
        => /\ ~requests[r].isError
           /\ requests[r].body = <<"created">>

Calls == {scriptLog[i] : i \in 1..Len(scriptLog)}

RECURSIVE C18_Joined(_)
C18_Joined(list) ==
    IF Len(list) = 1 THEN list[1] ELSE list[1] \o Separator \o C18_Joined(Tail(list))

\* C18: listGroups and getGroupMembers return the empty sequence for empty
\* trimmed output, the output as the only element when it holds no ", ", and
\* otherwise its pieces between the ", " separators, in order.
C18_ParsesNames ==
    \A e \in Calls :
        e.tool \in {"list_groups", "get_group_members"} /\ ~e.result.threw =>
            LET out == trim(e.exec.stdout)
                list == e.result.list
            IN  /\ out = <<>> => list = <<>>
                /\ out # <<>> /\ ~includes(out, Separator) => list = <<out>>
                /\ out # <<>> /\ includes(out, Separator) =>
                       /\ Len(list) >= 2
                       /\ C18_Joined(list) = out
                       /\ \A i \in 1..Len(list) : ~includes(list[i], Separator)

C18_Witness ==
    \E e \in Calls :
        /\ e.tool = "list_groups"
        /\ e.exec.stdout = <<"a", ",", " ", "a">>
        /\ e.result.list = << <<"a">>, <<"a">> >>

\* What escaping makes of one character.
C19_EscapedChar(c) ==
    IF c = Backslash THEN <<Backslash, Backslash>>
    ELSE IF c = Quote THEN <<Backslash, Quote>>
    ELSE IF c \in {CR, LF} THEN <<>>
    ELSE <<c>>

RECURSIVE C19_Escaped(_)
C19_Escaped(str) ==
    IF str = <<>> THEN <<>> ELSE C19_EscapedChar(Head(str)) \o C19_Escaped(Tail(str))

\* C19: every literal of a script is the caller's name with each backslash
\* doubled, each double quote preceded by one backslash and each carriage
\* return and newline removed; no name enters a script otherwise.
C19_NamesEscaped ==
    \A e \in Calls :
        /\ Len(e.names) >= 1 => Len(e.script.literals) >= 1
        /\ Len(e.names) = 1 =>
               \A i \in 1..Len(e.script.literals) :
                   e.script.literals[i] = C19_Escaped(e.names[1])
        /\ Len(e.names) = 2 =>
               e.script.literals = <<C19_Escaped(e.names[1]), C19_Escaped(e.names[2])>>

C19_Witness ==
    \E e \in Calls :
        /\ e.tool = "create_group"
        /\ e.names = << <<Quote, Backslash, LF, "a">> >>
        /\ e.script.literals[1] = <<Backslash, Quote, Backslash, Backslash, "a">>

\* v is s without its leading and trailing white space.
C20_Trimmed(v, s) ==
    \E i \in 1..(Len(s) + 1) :
        /\ v = SubSeq(s, i, i + Len(v) - 1)
        /\ \A k \in 1..Len(s) : k < i \/ k >= i + Len(v) => IsSpace(s[k])
        /\ v # <<>> => ~IsSpace(v[1]) /\ ~IsSpace(v[Len(v)])

\* C20: when the interpreter fails, runAppleScript throws an error whose
\* message is "AppleScript error: " followed by the failure's stderr text when
\* it has a non-empty one, else by the failure's message when it is an Error,
\* else by the thrown value as a string; when the interpreter succeeds it
\* returns the output without its surrounding white space.
C20_FailuresNormalized ==
    \A e \in Calls :
        /\ e.exec.threw =>
               /\ e.run.threw
               /\ e.result.threw
               /\ e.result.error = e.run.value
               /\ e.run.value = ErrorPrefix \o
                      (IF e.exec.stderr \notin {None, Some(<<>>)} THEN Get(e.exec.stderr)
                       ELSE IF e.exec.isError THEN e.exec.message
                       ELSE e.exec.string)
        /\ ~e.exec.threw => ~e.run.threw /\ C20_Trimmed(e.run.value, e.exec.stdout)

C20_Witness ==
    \E e \in Calls :
        /\ e.exec.threw
        /\ e.exec.stderr = Some(ScriptErrorDetail)
        /\ e.result.error = ErrorPrefix \o ScriptErrorDetail

\* Two calls of create_group made one after the other with the same name, both
\* of whose scripts ran, the group being absent before the first.
C16_Pairs ==
    { <<scriptLog[i], scriptLog[i + 1]>> : i \in
        { j \in 1..(Len(scriptLog) - 1) :
            /\ scriptLog[j].tool = "create_group"
            /\ scriptLog[j + 1].tool = "create_group"
            /\ scriptLog[j].names = scriptLog[j + 1].names
            /\ ~scriptLog[j].exec.threw /\ ~scriptLog[j + 1].exec.threw
            /\ GroupsNamed(scriptLog[j].before,
                           literalText(scriptLog[j].script.literals[1])) = {} } }

\* C16: of two successive createGroup calls with one name, both answer
\* success, the first with a message containing "created" and the second with
\* one containing "already exists", and the second leaves the groups as the
\* first left them.
C16_CreateGroupIdempotent ==
    \A pair \in C16_Pairs :
        /\ pair[1].result.success /\ pair[2].result.success
        /\ ~pair[1].response.isError /\ ~pair[2].response.isError
        /\ includes(pair[1].result.message, <<"created">>)
        /\ includes(pair[2].result.message, <<"already exists">>)
        /\ pair[2].after = pair[1].after

C16_Witness ==
    \E pair \in C16_Pairs :
        /\ pair[1].names = <<Tricky>>
        /\ pair[1].before = <<>>
        /\ pair[2].after = <<Group(<<Quote, "W", Backslash>>, <<>>)>>

\* C17: getGroupMembers throws the not-found error naming the group when the
\* script prints GROUP_NOT_FOUND, returns the empty sequence when it prints
\* nothing, throws an error that starts with "AppleScript error: " when the
\* script fails, and does not report a group that exists as not found.
C17_MembersOutcomes ==
    \A e \in Calls :
        e.tool = "get_group_members" =>
            LET notFound == e.result.threw
                            /\ e.result.error = GroupMessage(e.names[1], "not found")
            IN  /\ e.exec.threw =>
                       /\ e.result.threw
                       /\ SubSeq(e.result.error, 1, Len(ErrorPrefix)) = ErrorPrefix
                /\ ~e.exec.threw /\ e.run.value = Sentinel => notFound
                /\ ~e.exec.threw /\ e.run.value = <<>> =>
                       ~e.result.threw /\ e.result.list = <<>>
                /\ GroupsNamed(e.before, e.names[1]) # {} => ~notFound

\* C21: check_contacts_access answers with the authorization status the
\* backend reported and with a hint that is non-empty exactly when that status
\* is Not Determined or Denied, and it requests no permission prompt.
C21_StatusAndHint ==
    \A r \in 1..Len(requests) :
        requests[r].tool = "check_contacts_access" =>
            \A a \in requests[r].started :
                /\ ops[a].prompts = 0
                /\ ops[a].outcome = "resolved" =>
                       (requests[r].body[2] # "" <=>
                            ops[a].status \in {"Not Determined", "Denied"})

ExtendedScan(a) ==
    \E i \in 1..Len(ops[a].calls) : ops[a].calls[i] = "getAllContacts+extra"

\* C22: getContactDetails returns a record whenever a stored contact has the
\* identifier, whatever the targeted name search returned; a record returned
\* has the requested identifier; and the scan of all contacts with extended
\* properties is made only when the targeted search gave no match.
C22_DetailsComplete ==
    \A a \in Details :
        /\ FindById(store, ops[a].identifier) # None => ops[a].value # <<>>
        /\ ops[a].value # <<>> => ops[a].value[1].identifier = ops[a].identifier
        /\ ExtendedScan(a) <=> FindById(ops[a].primary, ops[a].identifier) = None

C22_Witness ==
    \E a \in Details :
        /\ ops[a].identifier = "c1"
        /\ ops[a].primary = <<>>
        /\ ExtendedScan(a)
        /\ Ids(ops[a].value) = <<"c1">>

\* Pairs of updateContact activations on one contact, from two invocations
\* whose callers supplied disjoint fields, both answered true by the backend.
C23_Pairs ==
    { p \in OpSet \X OpSet :
        /\ p[1] # p[2]
        /\ \A i \in 1..2 : /\ ops[p[i]].kind = "updateContact"
                            /\ ops[p[i]].outcome = "resolved"
                            /\ ops[p[i]].ok
        /\ ops[p[1]].identifier = ops[p[2]].identifier
        /\ \A f \in Fields : requests[ops[p[1]].inv].fields[f] = None
                              \/ requests[ops[p[2]].inv].fields[f] = None }

MakesDataCall(a) == ops[a].calls = <<>> /\ ops'[a].calls # <<>>

\* C24: in the step in which an operation makes a backend data call, the
\* authorization status is Authorized or Limited.
C24_GrantedAtDataCall ==
    [][\A a \in OpSet : MakesDataCall(a) => authStatus \in Granting]_vars

\* The operations for which the access request was issued.
Prompted == {a \in OpSet : ops[a].prompts > 0}

\* C25: across concurrent operations the access request is issued at most
\* once, and every operation that read Not Determined passes or fails its gate
\* by the result of that one request.
C25_SinglePrompt ==
    /\ Cardinality(Prompted) <= 1
    /\ \A a \in Prompted, b \in GatedOps :
           ops[b].status = "Not Determined" /\ ops[b].gate # "none" /\ ops[a].result # "" =>
               (ops[b].gate = "passed" <=> ops[a].result \in Granting)

ReadKinds == {"searchContacts", "getContactDetails"}

\* What the reads of activation a return when all are made on the store st.
ReadsOn(a, st, miss) ==
    IF ops[a].kind = "searchContacts" THEN searchContacts(st, ops[a].query, miss)
    ELSE getContactDetails(st, ops[a].identifier, miss)

\* C26: searchContacts and getContactDetails make all their backend reads in
\* one step, with no suspension between them: the step that makes the first
\* read settles the operation, leaves the store as it is, and its result is
\* the one that all the reads give on the store of that moment.
C26_ReadsInOneStep ==
    [][\A a \in OpSet :
          ops[a].kind \in ReadKinds /\ MakesDataCall(a) =>
              /\ ops'[a].pc = "done"
              /\ store' = store
              /\ \E miss \in BOOLEAN :
                     /\ ops'[a].calls = ReadsOn(a, store, miss).calls
                     /\ ops'[a].value = ReadsOn(a, store, miss).value]_vars

C26_Witness ==
    \E a, b \in OpSet :
        /\ ops[a].kind \in ReadKinds /\ ops[a].outcome = "resolved"
        /\ Len(ops[a].calls) = 3
        /\ ops[b].kind = "deleteContact" /\ ops[b].outcome = "resolved" /\ ops[b].ok

Literals == UNION {{e.script.literals[i] : i \in 1..Len(e.script.literals)} : e \in Calls}

\* The number of consecutive backslashes that end right before position i.
C27_RunBefore(lit, i) ==
    LET runs == {k \in 0..(i - 1) : \A j \in (i - k)..(i - 1) : lit[j] = Backslash}
    IN  CHOOSE k \in runs : \A m \in runs : m <= k

\* C27: in a script literal every double quote follows an odd number of
\* consecutive backslashes, the literal does not end in an odd number of
\* backslashes, and it holds no carriage return and no newline.
C27_LiteralStaysClosed ==
    \A lit \in Literals :
        /\ \A i \in 1..Len(lit) :
               /\ lit[i] \notin {CR, LF}
               /\ lit[i] = Quote => C27_RunBefore(lit, i) % 2 = 1
        /\ C27_RunBefore(lit, Len(lit) + 1) % 2 = 0

C27_Witness ==
    \E e \in Calls :
        /\ e.names = << <<Backslash, LF, Quote, Backslash>> >>
        /\ e.script.literals[1] =
               <<Backslash, Backslash, Backslash, Quote, Backslash, Backslash>>

\* C28: once createGroup(name) has answered success, a listGroups that
\* returns gives a sequence with name among its elements, as supplied, and
\* with one element for each group that exists.
C28_CreatedNameListed ==
    \A i, j \in 1..Len(scriptLog) :
        /\ i < j
        /\ scriptLog[i].tool = "create_group" /\ ~scriptLog[i].result.threw
        /\ scriptLog[i].result.success
        /\ scriptLog[j].tool = "list_groups" /\ ~scriptLog[j].result.threw
        => /\ \E k \in 1..Len(scriptLog[j].result.list) :
                  scriptLog[j].result.list[k] = scriptLog[i].names[1]
           /\ Len(scriptLog[j].result.list) = Len(scriptLog[j].before)
====
